---- MODULE Spec2Model ----
(* Model of the Universal Stock Tracker page script (app.py): the market data
   gateway with its three time-to-live caches, the chart guard, the AI assistant
   bridge and the session state that one page pass reads and writes.
   Text is modelled as a sequence of Unicode code points, money and percentages
   as fixed-point integers in hundredths. *)
EXTENDS Integers, Sequences, FiniteSets, TLC

(* ---------------- string literals of app.py, as code points ---------------- *)
\* 'AAPL'
DEFAULT_TICKER ==
    << 65, 65, 80, 76 >>

\* 'N/A'
NA_TEXT ==
    << 78, 47, 65 >>

\* 'None'
NONE_TEXT ==
    << 78, 111, 110, 101 >>

\* 'nan'
NAN_TEXT ==
    << 110, 97, 110 >>

\* 'Groq library not installed. Please run: pip install groq'
MSG_GROQ_MISSING ==
    << 71, 114, 111, 113, 32, 108, 105, 98, 114, 97, 114, 121, 32, 110, 111, 116, 32, 105, 110,
       115, 116, 97, 108, 108, 101, 100, 46, 32, 80, 108, 101, 97, 115, 101, 32, 114, 117, 110,
       58, 32, 112, 105, 112, 32, 105, 110, 115, 116, 97, 108, 108, 32, 103, 114, 111, 113 >>

\* 'Please enter your FREE Groq API key in the sidebar.'
MSG_NO_KEY ==
    << 80, 108, 101, 97, 115, 101, 32, 101, 110, 116, 101, 114, 32, 121, 111, 117, 114, 32, 70,
       82, 69, 69, 32, 71, 114, 111, 113, 32, 65, 80, 73, 32, 107, 101, 121, 32, 105, 110, 32,
       116, 104, 101, 32, 115, 105, 100, 101, 98, 97, 114, 46 >>

\* 'AI Error: '
MSG_AI_ERROR_HEAD ==
    << 65, 73, 32, 69, 114, 114, 111, 114, 58, 32 >>

\* '\n\nMake sure your API key is valid or try again without emojis in your question.'
MSG_AI_ERROR_TAIL ==
    << 10, 10, 77, 97, 107, 101, 32, 115, 117, 114, 101, 32, 121, 111, 117, 114, 32, 65, 80,
       73, 32, 107, 101, 121, 32, 105, 115, 32, 118, 97, 108, 105, 100, 32, 111, 114, 32, 116,
       114, 121, 32, 97, 103, 97, 105, 110, 32, 119, 105, 116, 104, 111, 117, 116, 32, 101,
       109, 111, 106, 105, 115, 32, 105, 110, 32, 121, 111, 117, 114, 32, 113, 117, 101, 115,
       116, 105, 111, 110, 46 >>

\* "name 'sanitize_for_groq' is not defined"
NAME_ERROR_TEXT ==
    << 110, 97, 109, 101, 32, 39, 115, 97, 110, 105, 116, 105, 122, 101, 95, 102, 111, 114, 95,
       103, 114, 111, 113, 39, 32, 105, 115, 32, 110, 111, 116, 32, 100, 101, 102, 105, 110,
       101, 100 >>

\* 'Provide a comprehensive analysis of current performance and trends.'
QUERY_PERFORMANCE ==
    << 80, 114, 111, 118, 105, 100, 101, 32, 97, 32, 99, 111, 109, 112, 114, 101, 104, 101,
       110, 115, 105, 118, 101, 32, 97, 110, 97, 108, 121, 115, 105, 115, 32, 111, 102, 32, 99,
       117, 114, 114, 101, 110, 116, 32, 112, 101, 114, 102, 111, 114, 109, 97, 110, 99, 101,
       32, 97, 110, 100, 32, 116, 114, 101, 110, 100, 115, 46 >>

\* 'What are the key factors investors should consider? Analyze valuation, growth potential, and risks.'
QUERY_INSIGHTS ==
    << 87, 104, 97, 116, 32, 97, 114, 101, 32, 116, 104, 101, 32, 107, 101, 121, 32, 102, 97,
       99, 116, 111, 114, 115, 32, 105, 110, 118, 101, 115, 116, 111, 114, 115, 32, 115, 104,
       111, 117, 108, 100, 32, 99, 111, 110, 115, 105, 100, 101, 114, 63, 32, 65, 110, 97, 108,
       121, 122, 101, 32, 118, 97, 108, 117, 97, 116, 105, 111, 110, 44, 32, 103, 114, 111,
       119, 116, 104, 32, 112, 111, 116, 101, 110, 116, 105, 97, 108, 44, 32, 97, 110, 100, 32,
       114, 105, 115, 107, 115, 46 >>

\* 'Provide technical analysis: price levels, support/resistance, and momentum based on the data.'
QUERY_TECHNICAL ==
    << 80, 114, 111, 118, 105, 100, 101, 32, 116, 101, 99, 104, 110, 105, 99, 97, 108, 32, 97,
       110, 97, 108, 121, 115, 105, 115, 58, 32, 112, 114, 105, 99, 101, 32, 108, 101, 118,
       101, 108, 115, 44, 32, 115, 117, 112, 112, 111, 114, 116, 47, 114, 101, 115, 105, 115,
       116, 97, 110, 99, 101, 44, 32, 97, 110, 100, 32, 109, 111, 109, 101, 110, 116, 117, 109,
       32, 98, 97, 115, 101, 100, 32, 111, 110, 32, 116, 104, 101, 32, 100, 97, 116, 97, 46 >>

\* 'You are a helpful financial analyst assistant. Provide clear, balanced analysis of stock data. Always remind users this is not financial advice and they should do their own research.'
SYSTEM_PROMPT ==
    << 89, 111, 117, 32, 97, 114, 101, 32, 97, 32, 104, 101, 108, 112, 102, 117, 108, 32, 102,
       105, 110, 97, 110, 99, 105, 97, 108, 32, 97, 110, 97, 108, 121, 115, 116, 32, 97, 115,
       115, 105, 115, 116, 97, 110, 116, 46, 32, 80, 114, 111, 118, 105, 100, 101, 32, 99, 108,
       101, 97, 114, 44, 32, 98, 97, 108, 97, 110, 99, 101, 100, 32, 97, 110, 97, 108, 121,
       115, 105, 115, 32, 111, 102, 32, 115, 116, 111, 99, 107, 32, 100, 97, 116, 97, 46, 32,
       65, 108, 119, 97, 121, 115, 32, 114, 101, 109, 105, 110, 100, 32, 117, 115, 101, 114,
       115, 32, 116, 104, 105, 115, 32, 105, 115, 32, 110, 111, 116, 32, 102, 105, 110, 97,
       110, 99, 105, 97, 108, 32, 97, 100, 118, 105, 99, 101, 32, 97, 110, 100, 32, 116, 104,
       101, 121, 32, 115, 104, 111, 117, 108, 100, 32, 100, 111, 32, 116, 104, 101, 105, 114,
       32, 111, 119, 110, 32, 114, 101, 115, 101, 97, 114, 99, 104, 46 >>

\* '\n\nUser Query: '
USER_QUERY_HEAD ==
    << 10, 10, 85, 115, 101, 114, 32, 81, 117, 101, 114, 121, 58, 32 >>

\* '\n\nProvide helpful analysis based on the data above.'
USER_QUERY_TAIL ==
    << 10, 10, 80, 114, 111, 118, 105, 100, 101, 32, 104, 101, 108, 112, 102, 117, 108, 32, 97,
       110, 97, 108, 121, 115, 105, 115, 32, 98, 97, 115, 101, 100, 32, 111, 110, 32, 116, 104,
       101, 32, 100, 97, 116, 97, 32, 97, 98, 111, 118, 101, 46 >>

\* 'Historical data not available.'
HIST_UNAVAILABLE ==
    << 72, 105, 115, 116, 111, 114, 105, 99, 97, 108, 32, 100, 97, 116, 97, 32, 110, 111, 116,
       32, 97, 118, 97, 105, 108, 97, 98, 108, 101, 46 >>

\* '1-month historical data not available.'
HIST_UNAVAILABLE_1MO ==
    << 49, 45, 109, 111, 110, 116, 104, 32, 104, 105, 115, 116, 111, 114, 105, 99, 97, 108, 32,
       100, 97, 116, 97, 32, 110, 111, 116, 32, 97, 118, 97, 105, 108, 97, 98, 108, 101, 46 >>

\* ' change: '
CHANGE_LABEL ==
    << 32, 99, 104, 97, 110, 103, 101, 58, 32 >>

\* '1-month change: '
ONE_MONTH_LABEL ==
    << 49, 45, 109, 111, 110, 116, 104, 32, 99, 104, 97, 110, 103, 101, 58, 32 >>

\* '\n    Current '
CTX_0 ==
    << 10, 32, 32, 32, 32, 67, 117, 114, 114, 101, 110, 116, 32 >>

\* ' Stock Data:\n    - Current Price: $'
CTX_1 ==
    << 32, 83, 116, 111, 99, 107, 32, 68, 97, 116, 97, 58, 10, 32, 32, 32, 32, 45, 32, 67, 117,
       114, 114, 101, 110, 116, 32, 80, 114, 105, 99, 101, 58, 32, 36 >>

\* '\n    - Day Change: '
CTX_2 ==
    << 10, 32, 32, 32, 32, 45, 32, 68, 97, 121, 32, 67, 104, 97, 110, 103, 101, 58, 32 >>

\* ' ('
CTX_3 ==
    << 32, 40 >>

\* '%)\n    - Day High: $'
CTX_4 ==
    << 37, 41, 10, 32, 32, 32, 32, 45, 32, 68, 97, 121, 32, 72, 105, 103, 104, 58, 32, 36 >>

\* '\n    - Day Low: $'
CTX_5 ==
    << 10, 32, 32, 32, 32, 45, 32, 68, 97, 121, 32, 76, 111, 119, 58, 32, 36 >>

\* '\n    - 52 Week High: $'
CTX_6 ==
    << 10, 32, 32, 32, 32, 45, 32, 53, 50, 32, 87, 101, 101, 107, 32, 72, 105, 103, 104, 58,
       32, 36 >>

\* '\n    - 52 Week Low: $'
CTX_7 ==
    << 10, 32, 32, 32, 32, 45, 32, 53, 50, 32, 87, 101, 101, 107, 32, 76, 111, 119, 58, 32, 36 >>

\* '\n    - Market Cap: '
CTX_8 ==
    << 10, 32, 32, 32, 32, 45, 32, 77, 97, 114, 107, 101, 116, 32, 67, 97, 112, 58, 32 >>

\* '\n    - P/E Ratio: '
CTX_9 ==
    << 10, 32, 32, 32, 32, 45, 32, 80, 47, 69, 32, 82, 97, 116, 105, 111, 58, 32 >>

\* '\n    - Volume: '
CTX_10 ==
    << 10, 32, 32, 32, 32, 45, 32, 86, 111, 108, 117, 109, 101, 58, 32 >>

\* '\n    - Sector: '
CTX_11 ==
    << 10, 32, 32, 32, 32, 45, 32, 83, 101, 99, 116, 111, 114, 58, 32 >>

\* '\n    - Industry: '
CTX_12 ==
    << 10, 32, 32, 32, 32, 45, 32, 73, 110, 100, 117, 115, 116, 114, 121, 58, 32 >>

\* '\n\n    Historical Performance:\n    '
CTX_13 ==
    << 10, 10, 32, 32, 32, 32, 72, 105, 115, 116, 111, 114, 105, 99, 97, 108, 32, 80, 101, 114,
       102, 111, 114, 109, 97, 110, 99, 101, 58, 10, 32, 32, 32, 32 >>

\* '\n    '
CTX_14 ==
    << 10, 32, 32, 32, 32 >>

(* ---------------- Python values ---------------- *)
\* A value is tagged with its Python type; v holds the text of a str and the
\* hundredths of a number (153.00 is <<15300>>).
Str(t) == [k |-> "str", v |-> t]

Num(n) == [k |-> "num", v |-> <<n>>]

NoneV == [k |-> "none", v |-> <<>>]

\* float results of numpy's true division by zero (a RuntimeWarning, no exception)
NaN == [k |-> "nan", v |-> <<>>]

Inf == [k |-> "inf", v |-> <<>>]

\* dict.get(key, default) finds no such key
Absent == [k |-> "absent", v |-> <<>>]

NA == Str(NA_TEXT)

IsNumber(x) == x.k \in {"num", "nan", "inf"}

Abs(n) == IF n < 0 THEN -n ELSE n

RECURSIVE Digits(_)
Digits(n) == IF n < 10 THEN <<48 + n>> ELSE Digits(n \div 10) \o <<48 + (n % 10)>>

\* "{x:.2f}" of a number held in hundredths
Fixed2(n) ==
    (IF n < 0 THEN <<45>> ELSE <<>>) \o Digits(Abs(n) \div 100) \o <<46>>
        \o <<48 + ((Abs(n) % 100) \div 10), 48 + (Abs(n) % 10)>>

\* str(x), as the f-strings and sanitize_for_groq apply it
str(x) ==
    CASE x.k = "str" -> x.v
      [] x.k = "none" -> NONE_TEXT
      [] x.k = "nan" -> NAN_TEXT
      [] x.k = "inf" -> <<105, 110, 102>>
      [] x.k = "num" -> Fixed2(x.v[1])
      [] OTHER -> <<>>

\* round(n / d, 0) for d > 0: nearest integer, ties to even
RoundDiv(n, d) ==
    LET a == Abs(n)
        q == a \div d
        r == a % d
        m == IF 2 * r > d \/ (2 * r = d /\ q % 2 = 1) THEN q + 1 ELSE q
    IN  IF n < 0 THEN -m ELSE m

\* round((a / b) * 100, 2) on numpy floats, a and b in hundredths
PercentOf(a, b) ==
    IF b = 0 THEN (IF a = 0 THEN NaN ELSE Inf) ELSE Num(RoundDiv(a * 10000, b))

(* ---------------- sanitize_for_groq ---------------- *)
\* text.encode("ascii", "ignore"): one byte per code point below 128, the rest dropped
encode_ascii_ignore(t) == SelectSeq(t, LAMBDA c : c < 128)

\* bytes.decode(): every byte of an ASCII string is its own code point
decode(b) == [i \in 1..Len(b) |-> b[i]]

sanitize_latin1(text) ==
    LET t == IF text.k # "str" THEN str(text) ELSE text.v
    IN  decode(SelectSeq(t, LAMBDA c : c < 256))

sanitize_for_groq(text) ==
    LET t == IF text.k # "str" THEN str(text) ELSE text.v
    IN  decode(encode_ascii_ignore(t))

(* ---------------- market data gateway: the function bodies ---------------- *)
NoQuote == [exc |-> FALSE, err |-> FALSE, some |-> FALSE, price |-> NoneV, change |-> NoneV, change_pct |-> NoneV,
            timestamp |-> 0]

\* info.get("previousClose", current_price), current_price if stock.info raises,
\* then the "in (None, 0)" fallback
prev_close_of(provider, current_price) ==
    LET got == IF provider.info = "raises" \/ provider.previousClose = Absent
               THEN current_price
               ELSE provider.previousClose
    IN  IF got = NoneV \/ got = Num(0) THEN current_price ELSE got

\* The body of get_current_price: provider is what yfinance does on this call,
\* clock the reading of datetime.now(). exc marks an exception leaving the call
\* (the try/except of each gateway method leaves none), err the st.error message
\* of the except branch.
get_current_price(ticker, provider, clock) ==
    IF provider.history = "raises" THEN [NoQuote EXCEPT !.err = TRUE]
    ELSE IF provider.history = "empty" THEN NoQuote
    ELSE LET current_price == Num(provider.close)
             prev_close == prev_close_of(provider, current_price)
             change == current_price.v[1] - prev_close.v[1]
         IN  [exc |-> FALSE, err |-> FALSE, some |-> TRUE,
              price |-> current_price,
              change |-> Num(change),
              change_pct |-> PercentOf(change, prev_close.v[1]),
              timestamp |-> clock]

NoFrame == [exc |-> FALSE, err |-> FALSE, some |-> FALSE, rows |-> <<>>]

\* The body of get_historical_data: rows are the Close column of the frame.
get_historical_data(ticker, period, provider) ==
    IF provider.history = "raises" THEN [NoFrame EXCEPT !.err = TRUE]
    ELSE [exc |-> FALSE, err |-> FALSE, some |-> TRUE, rows |-> provider.rows]

\* profile field -> key of yfinance's info dict
FIELDS ==
    << <<"company", "longName">>, <<"sector", "sector">>, <<"industry", "industry">>,
       <<"market_cap", "marketCap">>, <<"pe_ratio", "trailingPE">>,
       <<"day_high", "dayHigh">>, <<"day_low", "dayLow">>,
       <<"52week_high", "fiftyTwoWeekHigh">>, <<"52week_low", "fiftyTwoWeekLow">>,
       <<"volume", "volume">>, <<"avg_volume", "averageVolume">>,
       <<"dividend_yield", "dividendYield">> >>

ProfileKeys == {FIELDS[i][1] : i \in DOMAIN FIELDS}

ProviderKeys == {FIELDS[i][2] : i \in DOMAIN FIELDS}

ProviderKey(name) == FIELDS[CHOOSE i \in DOMAIN FIELDS : FIELDS[i][1] = name][2]

EmptyDict == [key \in ProviderKeys |-> Absent]

dict_get(d, key, default) == IF d[key] = Absent THEN default ELSE d[key]

NoProfile == [exc |-> FALSE, err |-> FALSE, some |-> FALSE, f |-> [name \in ProfileKeys |-> Absent]]

get_stock_info_no_default(ticker, provider) ==
    IF provider.info = "raises" THEN [NoProfile EXCEPT !.err = TRUE]
    ELSE LET info == IF provider.info = "none" THEN EmptyDict ELSE provider.d
         IN  [exc |-> FALSE, err |-> FALSE, some |-> TRUE,
              f |-> [name \in ProfileKeys |->
                        dict_get(info, ProviderKey(name),
                                 IF name = "company" THEN Str(ticker) ELSE NoneV)]]

\* The body of get_stock_info: "stock.info or {}", then one get per field.
get_stock_info(ticker, provider) ==
    IF provider.info = "raises" THEN [NoProfile EXCEPT !.err = TRUE]
    ELSE LET info == IF provider.info = "none" THEN EmptyDict ELSE provider.d
         IN  [exc |-> FALSE, err |-> FALSE, some |-> TRUE,
              f |-> [name \in ProfileKeys |->
                        dict_get(info, ProviderKey(name),
                                 IF name = "company" THEN Str(ticker) ELSE NA)]]

(* ---------------- AI assistant bridge ---------------- *)
\* Names bound in the module namespace of app.py when a method body runs: the
\* imports, GROQ_AVAILABLE, the class and the page script's own variables.
ModuleGlobals ==
    {"st", "yf", "pd", "go", "datetime", "os", "Groq", "GROQ_AVAILABLE", "StockTracker",
     "ticker_input", "new_ticker", "api_key_input", "period", "ticker", "tracker", "info",
     "company_name", "price_data", "tab1", "tab2", "tab3", "tab4", "hist",
     "build_stock_data", "prompt", "stock_data", "response", "analysis"}

\* Lookup of a free name in a method body: its locals, then the module globals.
\* The body of class StockTracker is not an enclosing scope, so a name bound
\* there (sanitize_for_groq, line 178) is not found and the lookup raises NameError.
NameResolves(name, locals) == name \in locals \cup ModuleGlobals

StockDataKeys == {"current_price", "change", "change_pct", "historical_summary"} \cup ProfileKeys

sd_get(stock_data, key) == IF stock_data[key] = Absent THEN NA ELSE stock_data[key]

\* the f-string of lines 198-214
Context(ticker, stock_data) ==
    CTX_0 \o ticker
    \o CTX_1 \o str(sd_get(stock_data, "current_price"))
    \o CTX_2 \o str(sd_get(stock_data, "change"))
    \o CTX_3 \o str(sd_get(stock_data, "change_pct"))
    \o CTX_4 \o str(sd_get(stock_data, "day_high"))
    \o CTX_5 \o str(sd_get(stock_data, "day_low"))
    \o CTX_6 \o str(sd_get(stock_data, "52week_high"))
    \o CTX_7 \o str(sd_get(stock_data, "52week_low"))
    \o CTX_8 \o str(sd_get(stock_data, "market_cap"))
    \o CTX_9 \o str(sd_get(stock_data, "pe_ratio"))
    \o CTX_10 \o str(sd_get(stock_data, "volume"))
    \o CTX_11 \o str(sd_get(stock_data, "sector"))
    \o CTX_12 \o str(sd_get(stock_data, "industry"))
    \o CTX_13 \o str(sd_get(stock_data, "historical_summary"))
    \o CTX_14

\* the except branch of analyze_with_ai
AiError(e, requests) ==
    [result |-> MSG_AI_ERROR_HEAD \o e \o MSG_AI_ERROR_TAIL, requests |-> requests]

\* client.chat.completions.create(...): one request; remote is what the hosted
\* API does with it
ChatCompletion(ticker, query, stock_data, remote) ==
    LET safe_context == sanitize_for_groq(Str(Context(ticker, stock_data)))
        safe_query == sanitize_for_groq(Str(query))
        request == [model |-> "llama-3.3-70b-versatile",
                    system |-> sanitize_for_groq(Str(SYSTEM_PROMPT)),
                    user |-> safe_context \o USER_QUERY_HEAD \o safe_query \o USER_QUERY_TAIL]
    IN  IF remote.create = "raises" THEN AiError(remote.error, <<request>>)
        ELSE [result |-> remote.reply, requests |-> <<request>>]

analyze_dependency_check_only(available, ticker, query, stock_data, api_key, remote) ==
    IF ~available THEN [result |-> MSG_GROQ_MISSING, requests |-> <<>>]
    ELSE IF remote.client = "raises" THEN AiError(remote.error, <<>>)
    ELSE ChatCompletion(ticker, query, stock_data, remote)

\* analyze_with_ai(self, ticker, query, stock_data, api_key), with the value of
\* GROQ_AVAILABLE; result is the returned text, requests the requests sent.
analyze_with_ai(available, ticker, query, stock_data, api_key, remote) ==
    IF ~available THEN [result |-> MSG_GROQ_MISSING, requests |-> <<>>]
    ELSE IF api_key = "" THEN [result |-> MSG_NO_KEY, requests |-> <<>>]
    ELSE IF remote.client = "raises" THEN AiError(remote.error, <<>>)
    ELSE IF ~NameResolves("sanitize_for_groq",
                          {"self", "ticker", "query", "stock_data", "api_key", "client",
                           "context"})
         THEN AiError(NAME_ERROR_TEXT, <<>>)
    ELSE ChatCompletion(ticker, query, stock_data, remote)

(* ---------------- the page script's inputs ---------------- *)
IsSpace(c) == c \in {9, 10, 11, 12, 13, 32}

RECURSIVE lstrip(_)
lstrip(t) == IF t # <<>> /\ IsSpace(Head(t)) THEN lstrip(Tail(t)) ELSE t

RECURSIVE rstrip(_)
rstrip(t) ==
    IF t # <<>> /\ IsSpace(t[Len(t)]) THEN rstrip(SubSeq(t, 1, Len(t) - 1)) ELSE t

strip(t) == rstrip(lstrip(t))

upper(t) == [i \in 1..Len(t) |-> IF t[i] >= 97 /\ t[i] <= 122 THEN t[i] - 32 ELSE t[i]]

\* new_ticker = (ticker_input or "AAPL").strip().upper()
Normalize(ticker_input) ==
    upper(strip(IF ticker_input = <<>> THEN DEFAULT_TICKER ELSE ticker_input))

\* what the user types into the ticker field: "msft", " "
TickerEntries == {<<109, 115, 102, 116>>, <<32>>}

Tickers == {DEFAULT_TICKER} \cup {Normalize(t) : t \in TickerEntries}

\* options of the period selectbox; index=2 selects the third
PERIOD_OPTIONS == <<"1d", "5d", "1mo", "3mo", "6mo", "1y", "2y", "5y">>

Periods == {PERIOD_OPTIONS[i] : i \in DOMAIN PERIOD_OPTIONS}

\* credentials: os.getenv("GROQ_API_KEY", "") and what the user types
ApiKeys == {"", "gsk_live"}

(* ---------------- what the collaborators may do on a call ---------------- *)
Closes == {0, 10050, 15300}

PrevCloses == {Absent, NoneV, Num(0), Num(15000), Num(20000)}

QuoteProviders ==
    [history : {"raises", "empty", "data"}, close : Closes,
     info : {"raises", "dict"}, previousClose : PrevCloses]

\* "Apple", "Tech"
SampleValue(key) ==
    IF key = "longName" THEN Str(<<65, 112, 112, 108, 101>>)
    ELSE IF key \in {"sector", "industry"} THEN Str(<<84, 101, 99, 104>>)
    ELSE Num(12345)

\* an info dict without the keys in absent; its other values are None when nulls
DictOf(absent, nulls) ==
    [key \in ProviderKeys |->
        IF key \in absent THEN Absent ELSE IF nulls THEN NoneV ELSE SampleValue(key)]

InfoProviders ==
    {[info |-> i, d |-> EmptyDict] : i \in {"raises", "none"}}
    \cup {[info |-> "dict", d |-> DictOf(absent, nulls)] :
             absent \in SUBSET ProviderKeys, nulls \in BOOLEAN}

\* "Hold.", "401 Unauthorized"
Remotes ==
    [client : {"ok", "raises"}, create : {"replies", "raises"},
     reply : {<<72, 111, 108, 100, 46>>},
     error : {<<52, 48, 49, 32, 85, 110, 97, 117, 116, 104, 111, 114, 105, 122, 101, 100>>}]

\* code points a text may hold: BEL, LF, space, A, a, DEL, e-acute, an emoji
Chars == {7, 10, 32, 65, 97, 127, 233, 128512}

MaxLen == 3

Texts == UNION {[1..n -> Chars] : n \in 0..MaxLen}

SanitizeInputs == {Str(t) : t \in Texts} \cup {NoneV, NaN, Num(15300)}

\* "hi", "hi" with an emoji, and the first fixed analysis query
Queries == {<<104, 105>>, <<104, 105, 128512>>, QUERY_PERFORMANCE}

AllAbsent == [key \in StockDataKeys |-> Absent]

SampleStockData ==
    [key \in StockDataKeys |->
        IF key \in ProfileKeys THEN SampleValue(ProviderKey(key))
        ELSE IF key = "historical_summary" THEN Str(HIST_UNAVAILABLE)
        ELSE Num(15300)]

(* ---------------- state ---------------- *)
VARIABLES
    now,             \* wall clock, seconds
    ticks,           \* clock advances so far
    passes,          \* page passes so far, counted where their number is bounded
    GROQ_AVAILABLE,  \* set once by the import at lines 16-20
    api_key,         \* st.session_state.api_key
    chat_history,    \* st.session_state.chat_history
    ticker,          \* st.session_state.ticker
    ticker_widget,   \* the ticker text_input: its value= argument and its text
    key_widget,      \* the credential text_input
    period,          \* the period selectbox
    price_cache,     \* st.cache_data(ttl=60) of get_current_price
    hist_cache,      \* st.cache_data(ttl=300) of get_historical_data
    info_cache,      \* st.cache_data(ttl=3600) of get_stock_info
    view,            \* what the last page pass did and rendered
    probe            \* the last direct call of a function, its arguments and result

vars == <<now, ticks, passes, GROQ_AVAILABLE, api_key, chat_history, ticker, ticker_widget,
          key_widget, period, price_cache, hist_cache, info_cache, view, probe>>

session == <<api_key, chat_history, ticker, ticker_widget, key_widget, period>>

caches == <<price_cache, hist_cache, info_cache>>

NoEntry(val) == [has |-> FALSE, val |-> val, at |-> 0]

\* a cache maps the keys it holds to their entries
EmptyCache == <<>>

NoView == [rendered |-> FALSE]

NoProbe == [fn |-> "none"]

Init ==
    /\ now = 0
    /\ ticks = 0
    /\ passes = 0
    /\ GROQ_AVAILABLE \in BOOLEAN
    /\ api_key \in ApiKeys
    /\ chat_history = <<>>
    /\ ticker = DEFAULT_TICKER
    /\ ticker_widget = [arg |-> ticker, text |-> ticker]
    /\ key_widget = [arg |-> api_key, text |-> api_key]
    /\ period = PERIOD_OPTIONS[3]
    /\ price_cache = EmptyCache
    /\ hist_cache = EmptyCache
    /\ info_cache = EmptyCache
    /\ view = NoView
    /\ probe = NoProbe

(* ---------------- direct calls of the functions ---------------- *)
\* One call per behaviour, on arguments drawn from the sets above.
CallSanitize ==
    /\ probe = NoProbe
    /\ \E text \in SanitizeInputs :
          LET out == sanitize_for_groq(text)
          IN  probe' = [fn |-> "sanitize_for_groq", text |-> text, out |-> out,
                        twice |-> sanitize_for_groq(Str(out))]
    /\ UNCHANGED <<now, ticks, passes, GROQ_AVAILABLE, session, caches, view>>

CallGetCurrentPrice ==
    /\ probe = NoProbe
    /\ \E t \in Tickers, provider \in QuoteProviders :
          probe' = [fn |-> "get_current_price", ticker |-> t, provider |-> provider,
                    out |-> get_current_price(t, provider, now)]
    /\ UNCHANGED <<now, ticks, passes, GROQ_AVAILABLE, session, caches, view>>

CallGetStockInfo ==
    /\ probe = NoProbe
    /\ \E t \in Tickers, provider \in InfoProviders :
          probe' = [fn |-> "get_stock_info", ticker |-> t, provider |-> provider,
                    out |-> get_stock_info(t, provider)]
    /\ UNCHANGED <<now, ticks, passes, GROQ_AVAILABLE, session, caches, view>>

CallAnalyzeWithAi ==
    /\ probe = NoProbe
    /\ \E t \in Tickers, query \in Queries, stock_data \in {AllAbsent, SampleStockData},
          key \in ApiKeys, remote \in Remotes :
          probe' = [fn |-> "analyze_with_ai", available |-> GROQ_AVAILABLE, ticker |-> t,
                    query |-> query, stock_data |-> stock_data, api_key |-> key,
                    remote |-> remote,
                    out |-> analyze_with_ai(GROQ_AVAILABLE, t, query, stock_data, key,
                                            remote)]
    /\ UNCHANGED <<now, ticks, passes, GROQ_AVAILABLE, session, caches, view>>

NextCalls == CallSanitize \/ CallGetCurrentPrice \/ CallGetStockInfo \/ CallAnalyzeWithAi

SpecCalls == Init /\ [][NextCalls]_vars

(* ---------------- the time-to-live caches ---------------- *)
PRICE_TTL == 60

HIST_TTL == 300

INFO_TTL == 3600

FreshForever(entry, ttl, clock) == entry.has

\* st.cache_data(ttl=...): a stored result is served while it is younger than ttl
Fresh(entry, ttl, clock) == entry.has /\ clock - entry.at < ttl

CachedSkipsNone(entry, ttl, clock, computed) ==
    IF Fresh(entry, ttl, clock)
    THEN [entry |-> entry, val |-> entry.val, miss |-> FALSE, at |-> entry.at]
    ELSE IF computed.exc \/ ~computed.some
    THEN [entry |-> entry, val |-> computed, miss |-> TRUE, at |-> clock]
    ELSE [entry |-> [has |-> TRUE, val |-> computed, at |-> clock],
          val |-> computed, miss |-> TRUE, at |-> clock]

CachedMerged(entry, ttl, clock, computed) ==
    IF Fresh(entry, ttl, clock)
    THEN [entry |-> entry, val |-> entry.val, miss |-> FALSE, at |-> entry.at]
    ELSE [entry |-> [has |-> TRUE, val |-> computed,
                     at |-> IF entry.has THEN entry.at ELSE clock],
          val |-> computed, miss |-> TRUE, at |-> clock]

\* One call of a cached function: the stored result on a hit; otherwise the body
\* runs (computed) and its result, None included, is stored with the time of the
\* call. An exception leaves the cache as it was.
Cached(entry, ttl, clock, computed) ==
    IF Fresh(entry, ttl, clock)
    THEN [entry |-> entry, val |-> entry.val, miss |-> FALSE, at |-> entry.at]
    ELSE IF computed.exc
    THEN [entry |-> entry, val |-> computed, miss |-> TRUE, at |-> clock]
    ELSE [entry |-> [has |-> TRUE, val |-> computed, at |-> clock],
          val |-> computed, miss |-> TRUE, at |-> clock]

EntryOf(cache, key, none) == IF key \in DOMAIN cache THEN cache[key] ELSE NoEntry(none)

\* storing an entry first drops the entries that have expired
Put(cache, key, entry, ttl, clock) ==
    IF entry.has /\ (key \notin DOMAIN cache \/ cache[key] # entry)
    THEN [k \in {x \in DOMAIN cache : Fresh(cache[x], ttl, clock)} \cup {key} |->
             IF k = key THEN entry ELSE cache[k]]
    ELSE cache

NoCall == [called |-> FALSE]

CallOf(key, c) == [called |-> TRUE, key |-> key, miss |-> c.miss, val |-> c.val, at |-> c.at]

(* ---------------- the page script, lines 250-601 ---------------- *)
\* st.text_input(label, value=arg) without a key: the widget is identified by
\* its arguments, so a changed value= makes a new widget that starts from it
\* (text typed into the old one is dropped); otherwise it keeps its text, or
\* takes what the user typed to start this pass.
TextInput(widget, arg, typed, entry) ==
    IF widget.arg # arg THEN [arg |-> arg, text |-> arg]
    ELSE IF typed THEN [arg |-> arg, text |-> entry]
    ELSE widget

NoEvent ==
    [kind |-> "rerun", text |-> <<>>, key |-> "", period |-> "1mo", button |-> 1,
     prompt |-> <<>>]

\* the sidebar, lines 251-290: both text inputs and the period selectbox
Sidebar(S, ev) ==
    LET tw == TextInput(S.ticker_widget, S.ticker, ev.kind = "ticker", ev.text)
        new_ticker == Normalize(tw.text)
        kw == TextInput(S.key_widget, S.api_key, ev.kind = "api_key", ev.key)
    IN  [S EXCEPT !.ticker_widget = tw,
                  !.ticker = IF new_ticker # S.ticker THEN new_ticker ELSE S.ticker,
                  !.key_widget = kw,
                  !.api_key = IF kw.text # S.api_key THEN kw.text ELSE S.api_key,
                  !.period = IF ev.kind = "period" THEN ev.period ELSE S.period]

\* st.cache_data.clear(), line 296
ClearCaches(S) ==
    [S EXCEPT !.price_cache = EmptyCache, !.hist_cache = EmptyCache,
              !.info_cache = EmptyCache]

\* "x not in ('N/A', None)" passed and x is then formatted or divided as a number
FormatRaises(x, skipped) == x \notin skipped /\ ~IsNumber(x)

\* info.get(key, "N/A") on the page's info, which is {} when get_stock_info gave None
info_get(info, key) == IF info[key] = Absent THEN NA ELSE info[key]

\* lines 334-364
TopMetricsRaise(info) ==
    \/ FormatRaises(info_get(info, "day_high"), {NA, NoneV})
    \/ FormatRaises(info_get(info, "day_low"), {NA, NoneV})
    \/ FormatRaises(info_get(info, "volume"), {NA, NoneV, Num(0)})

\* lines 409-451; dividend_yield is formatted only if isinstance(..., (int, float))
DetailsRaise(info) ==
    \/ FormatRaises(info_get(info, "market_cap"), {NA, NoneV})
    \/ FormatRaises(info_get(info, "pe_ratio"), {NA, NoneV})
    \/ FormatRaises(info_get(info, "avg_volume"), {NA, NoneV, Num(0)})

ChartGuardNotNone(hist) == hist.some

\* line 379: hist is not None and not hist.empty
ChartGuard(hist) == hist.some /\ hist.rows # <<>>

\* lines 478 and 565: hist_local is not None and not hist_local.empty
HasRows(hist_local) == hist_local.some /\ hist_local.rows # <<>>

\* (Close.iloc[-1] - Close.iloc[0]) / Close.iloc[0] * 100 as "{pct:.2f}%"
HistoricalSummary(label, hist_local, unavailable) ==
    IF HasRows(hist_local)
    THEN LET first == hist_local.rows[1]
             last == hist_local.rows[Len(hist_local.rows)]
         IN  Str(label \o str(PercentOf(last - first, first)) \o <<37>>)
    ELSE Str(unavailable)

\* the dict of lines 471-476 and 555-562 with its historical_summary
StockData(price_data, info, summary) ==
    [key \in StockDataKeys |->
        CASE key = "current_price" -> IF price_data.some THEN price_data.price ELSE NA
          [] key = "change" -> IF price_data.some THEN price_data.change ELSE NA
          [] key = "change_pct" -> IF price_data.some THEN price_data.change_pct ELSE NA
          [] key = "historical_summary" -> summary
          [] OTHER -> info[key]]

\* the three analysis buttons: period of build_stock_data and the fixed query
ANALYSIS ==
    << [period |-> "1mo", label |-> <<49, 109, 111>>, query |-> QUERY_PERFORMANCE],
       [period |-> "3mo", label |-> <<51, 109, 111>>, query |-> QUERY_INSIGHTS],
       [period |-> "6mo", label |-> <<54, 109, 111>>, query |-> QUERY_TECHNICAL] >>

AppendUserOnly(history, prompt, response) ==
    history \o <<[role |-> "user", content |-> prompt]>>

\* lines 546-548 and 584-586
AppendExchange(history, prompt, response) ==
    history \o <<[role |-> "user", content |-> prompt],
                 [role |-> "assistant", content |-> response]>>

NoAi == [called |-> FALSE, result |-> <<>>, requests |-> <<>>]

\* The main content, lines 315-601, is modelled in the order the script runs it:
\* the three fetches every pass makes, the fetch and the request of an analysis
\* button or a chat prompt, and what the pass rendered and how it ended (at the
\* footer, by st.rerun() or by an exception).

\* lines 319, 331 and 378: profile, quote and historical series of the pass
Fetches(S, w, clock) ==
    [ic |-> Cached(EntryOf(S.info_cache, S.ticker, NoProfile), INFO_TTL, clock,
                   get_stock_info(S.ticker, w.info)),
     qc |-> Cached(EntryOf(S.price_cache, S.ticker, NoQuote), PRICE_TTL, clock,
                   get_current_price(S.ticker, w.quote, clock)),
     hc |-> Cached(EntryOf(S.hist_cache, <<S.ticker, S.period>>, NoFrame), HIST_TTL, clock,
                   get_historical_data(S.ticker, S.period, w.hist))]

\* the caches after the first n of the three fetches
StoreUpTo(S, f, clock, n) ==
    [S EXCEPT
        !.info_cache = IF n >= 1 THEN Put(@, S.ticker, f.ic.entry, INFO_TTL, clock) ELSE @,
        !.price_cache = IF n >= 2 THEN Put(@, S.ticker, f.qc.entry, PRICE_TTL, clock) ELSE @,
        !.hist_cache = IF n >= 3
                       THEN Put(@, <<S.ticker, S.period>>, f.hc.entry, HIST_TTL, clock)
                       ELSE @]

\* tabs 3 and 4, lines 459-465 and 531-537
Gate(S, available) ==
    IF S.api_key = "" THEN "warn_key" ELSE IF ~available THEN "err_groq" ELSE "ready"

\* the period of the series an analysis button or the chat summarises
SummaryPeriod(ev) == IF ev.kind = "analyze" THEN ANALYSIS[ev.button].period ELSE "1mo"

Summary(ev, hist_local) ==
    IF ev.kind = "analyze"
    THEN HistoricalSummary(ANALYSIS[ev.button].label \o CHANGE_LABEL, hist_local,
                           HIST_UNAVAILABLE)
    ELSE HistoricalSummary(ONE_MONTH_LABEL, hist_local, HIST_UNAVAILABLE_1MO)

Query(ev) == IF ev.kind = "analyze" THEN ANALYSIS[ev.button].query ELSE ev.prompt

\* the first statement of the pass that raises outside every handler
Crash(f, info, draw, asks, h2) ==
    IF f.ic.val.exc THEN "info"
    ELSE IF f.qc.val.exc THEN "quote"
    ELSE IF f.qc.val.some /\ TopMetricsRaise(info) THEN "metrics"
    ELSE IF f.hc.val.exc THEN "hist"
    ELSE IF draw /\ f.hc.val.rows = <<>> THEN "tab1"
    ELSE IF f.ic.val.some /\ DetailsRaise(info) THEN "tab2"
    ELSE IF asks /\ h2.val.exc THEN "ask"
    ELSE "none"

\* the pass got as far as stage
Reached(crash, stage) ==
    crash = "none" \/ crash \in
        CASE stage = "quote" -> {"quote", "metrics", "hist", "tab1", "tab2", "ask"}
          [] stage = "hist" -> {"hist", "tab1", "tab2", "ask"}
          [] stage = "tab1" -> {"tab1", "tab2", "ask"}
          [] stage = "tab2" -> {"tab2", "ask"}
          [] stage = "ask" -> {"ask"}

\* What the pass leaves and what it rendered. f are its three fetches, S_h the
\* session after them, h2 the fetch and out the result of analyze_with_ai of an
\* analysis button or a chat prompt.
Rendered(S, ev, clock, f, S_h, info, gate, h2, out) ==
    LET t == S.ticker
        draw == ChartGuard(f.hc.val)
        asks == gate = "ready" /\ ev.kind \in {"analyze", "chat"}
        clears == gate = "ready" /\ ev.kind = "clear"
        S_h2 == [S_h EXCEPT !.hist_cache =
                    Put(@, <<t, SummaryPeriod(ev)>>, h2.entry, HIST_TTL, clock)]
        crash == Crash(f, info, draw, asks, h2)
        final == IF crash = "info" THEN S
                 ELSE IF crash \in {"quote", "metrics"} THEN StoreUpTo(S, f, clock, 2)
                 ELSE IF crash \in {"hist", "tab1", "tab2"} THEN S_h
                 ELSE IF crash = "ask" THEN
                      (IF ev.kind = "chat"
                       THEN [S_h2 EXCEPT !.chat_history =
                                @ \o <<[role |-> "user", content |-> ev.prompt]>>]
                       ELSE S_h2)
                 ELSE IF asks THEN
                      (IF ev.kind = "chat"
                       THEN [S_h2 EXCEPT !.chat_history =
                                AppendExchange(@, ev.prompt, out.result)]
                       ELSE S_h2)
                 ELSE IF clears THEN [S_h EXCEPT !.chat_history = <<>>]
                 ELSE S_h
    IN  [S |-> final,
         end |-> IF crash # "none" THEN "crash" ELSE IF clears THEN "rerun" ELSE "footer",
         crash |-> crash,
         ticker |-> t,
         period |-> S.period,
         info_call |-> CallOf(t, f.ic),
         quote_call |-> IF Reached(crash, "quote") THEN CallOf(t, f.qc) ELSE NoCall,
         hist_call |-> IF Reached(crash, "hist")
                       THEN CallOf(<<t, S.period>>, f.hc) ELSE NoCall,
         hist2_call |-> IF asks /\ Reached(crash, "ask")
                        THEN CallOf(<<t, SummaryPeriod(ev)>>, h2) ELSE NoCall,
         chart_invoked |-> Reached(crash, "tab1") /\ draw,
         tab1 |-> IF ~Reached(crash, "tab1") \/ crash = "tab1" THEN "none"
                  ELSE IF draw THEN "chart" ELSE "error",
         tab2 |-> IF ~Reached(crash, "tab2") \/ crash = "tab2" THEN "none"
                  ELSE IF f.ic.val.some THEN "details" ELSE "error",
         gate |-> IF crash \in {"none", "ask"} THEN gate ELSE "none",
         ai |-> IF asks /\ crash = "none"
                THEN [called |-> TRUE, result |-> out.result, requests |-> out.requests]
                ELSE NoAi]

\* lines 494-499, 506-511, 518-523 and 579-581: the request of a button or prompt
WithSecondFetch(S, ev, w, clock, available, f, S_h, info, h2) ==
    Rendered(S, ev, clock, f, S_h, info, Gate(S, available), h2,
             analyze_with_ai(available, S.ticker, Query(ev),
                             StockData(f.qc.val, info, Summary(ev, h2.val)),
                             S.api_key, w.remote))

\* lines 477 and 566: the series a button or the chat summarises
WithFetches(S, ev, w, clock, available, f, S_h) ==
    WithSecondFetch(S, ev, w, clock, available, f, S_h,
                    IF f.ic.val.some THEN f.ic.val.f ELSE NoProfile.f,
                    Cached(EntryOf(S_h.hist_cache, <<S.ticker, SummaryPeriod(ev)>>, NoFrame),
                           HIST_TTL, clock,
                           get_historical_data(S.ticker, SummaryPeriod(ev), w.hist2)))

WithFetched(S, ev, w, clock, available, f) ==
    WithFetches(S, ev, w, clock, available, f, StoreUpTo(S, f, clock, 3))

MainContent(S, ev, w, clock, available) ==
    WithFetched(S, ev, w, clock, available, Fetches(S, w, clock))

\* One user interaction: the script runs from the top with the widget values of
\* ev. The refresh button clears the caches and calls st.rerun() before the main
\* content; the clear-history button empties the transcript and calls
\* st.rerun() at the end of the chat tab. st.rerun() runs the script again at
\* once, with no interaction.
FirstRun(S1, ev, w, clock, available) ==
    IF ev.kind = "refresh"
    THEN [S |-> ClearCaches(S1), end |-> "rerun"]
    ELSE MainContent(S1, ev, w, clock, available)

AfterRerun(first, w, clock, available) ==
    IF first.end = "rerun"
    THEN [reran |-> TRUE,
          pass |-> MainContent(Sidebar(first.S, NoEvent), NoEvent, w, clock, available)]
    ELSE [reran |-> FALSE, pass |-> first]

RunScript(S, ev, w, clock, available) ==
    AfterRerun(FirstRun(Sidebar(S, ev), ev, w, clock, available), w, clock, available)

(* ---------------- what the collaborators do during a page pass ---------------- *)
\* "Infinity": the provider's info dict is decoded JSON, and a ratio it cannot
\* compute arrives as text
INFINITY_TEXT == <<73, 110, 102, 105, 110, 105, 116, 121>>

InfoWorld ==
    {[info |-> "raises", d |-> EmptyDict], [info |-> "none", d |-> EmptyDict],
     [info |-> "dict", d |-> DictOf({}, FALSE)], [info |-> "dict", d |-> DictOf({}, TRUE)],
     [info |-> "dict", d |-> [DictOf({}, FALSE) EXCEPT !["trailingPE"] = Str(INFINITY_TEXT)]]}

QuoteWorld ==
    {[history |-> "raises", close |-> 0, info |-> "dict", previousClose |-> Absent],
     [history |-> "empty", close |-> 0, info |-> "dict", previousClose |-> Absent],
     [history |-> "data", close |-> 15300, info |-> "dict", previousClose |-> Num(15000)]}

HistWorld ==
    {[history |-> "raises", rows |-> <<>>], [history |-> "frame", rows |-> <<>>],
     [history |-> "frame", rows |-> <<15000, 15300>>]}

\* A provider whose answers depend on the ticker alone: the default ticker has
\* data and its price drifts with the clock; for the empty ticker the quote
\* lookup raises and nothing else is known; for any other ticker the profile
\* and history lookups raise and the 1-day snapshot is empty.
Steady(t, clock) ==
    IF t = DEFAULT_TICKER
    THEN [info |-> [info |-> "dict", d |-> DictOf({}, FALSE)],
          quote |-> [history |-> "data", close |-> 15300 + clock, info |-> "dict",
                     previousClose |-> Num(15000)],
          hist |-> [history |-> "frame", rows |-> <<15000, 15300 + clock>>]]
    ELSE IF t = <<>>
    THEN [info |-> [info |-> "none", d |-> EmptyDict],
          quote |-> [history |-> "raises", close |-> 0, info |-> "dict",
                     previousClose |-> Absent],
          hist |-> [history |-> "frame", rows |-> <<>>]]
    ELSE [info |-> [info |-> "raises", d |-> EmptyDict],
          quote |-> [history |-> "empty", close |-> 0, info |-> "dict",
                     previousClose |-> Absent],
          hist |-> [history |-> "raises", rows |-> <<>>]]

SteadyRemote ==
    [client |-> "ok", create |-> "replies", reply |-> <<72, 111, 108, 100, 46>>,
     error |-> <<52, 48, 49>>]

\* the periods the user picks in the selectbox
PeriodChoices == {"5d", "1mo"}

\* chat prompts: "hi", "hi" with an emoji
Prompts == {<<104, 105>>, <<104, 105, 128512>>}

MaxChat == 4

MaxTicks == 2

MaxPasses == 2

\* clock advances: one second, and one second short of each time-to-live
TickSteps == {1, PRICE_TTL - 1, HIST_TTL - 1, INFO_TTL - 1}

\* the outcomes a call can have: those of world if the call reaches the
\* collaborator (needed) and the collaborators are free ("any"), else one
Choices(mode, world, steady, needed) ==
    IF mode = "any" /\ needed THEN world ELSE {steady}

CurrentS ==
    [ticker |-> ticker, api_key |-> api_key, chat_history |-> chat_history,
     ticker_widget |-> ticker_widget, key_widget |-> key_widget, period |-> period,
     price_cache |-> price_cache, hist_cache |-> hist_cache, info_cache |-> info_cache]

ViewOf(ev, r, clock) ==
    [rendered |-> TRUE, event |-> ev.kind, time |-> clock, reran |-> r.reran,
     end |-> r.pass.end, crash |-> r.pass.crash, ticker |-> r.pass.ticker,
     period |-> r.pass.period, info_call |-> r.pass.info_call,
     quote_call |-> r.pass.quote_call, hist_call |-> r.pass.hist_call,
     hist2_call |-> r.pass.hist2_call, chart_invoked |-> r.pass.chart_invoked,
     tab1 |-> r.pass.tab1, tab2 |-> r.pass.tab2, gate |-> r.pass.gate,
     ai |-> r.pass.ai]

\* the session's variables after a pass
Commit(ev, r, clock) ==
    /\ ticker' = r.pass.S.ticker
    /\ api_key' = r.pass.S.api_key
    /\ chat_history' = r.pass.S.chat_history
    /\ ticker_widget' = r.pass.S.ticker_widget
    /\ key_widget' = r.pass.S.key_widget
    /\ period' = r.pass.S.period
    /\ price_cache' = r.pass.S.price_cache
    /\ hist_cache' = r.pass.S.hist_cache
    /\ info_cache' = r.pass.S.info_cache
    /\ view' = ViewOf(ev, r, clock)

\* S1 is the session as the main content of the pass finds it
PassFrom(ev, mode, S1, st) ==
    LET t == S1.ticker
        asks == ev.kind \in {"analyze", "chat"}
    IN  \E wi \in Choices(mode, InfoWorld, st.info,
                          ~Fresh(EntryOf(S1.info_cache, t, NoProfile), INFO_TTL, now)),
           wq \in Choices(mode, QuoteWorld, st.quote,
                          ~Fresh(EntryOf(S1.price_cache, t, NoQuote), PRICE_TTL, now)),
           wh \in Choices(mode, HistWorld, st.hist,
                          ~Fresh(EntryOf(S1.hist_cache, <<t, S1.period>>, NoFrame),
                                 HIST_TTL, now)),
           wh2 \in Choices(mode, HistWorld, st.hist,
                           /\ asks
                           /\ SummaryPeriod(ev) # S1.period
                           /\ ~Fresh(EntryOf(S1.hist_cache, <<t, SummaryPeriod(ev)>>,
                                             NoFrame),
                                     HIST_TTL, now)),
           wr \in Choices(mode, Remotes, SteadyRemote, asks) :
           Commit(ev,
                  RunScript(CurrentS, ev,
                            [info |-> wi, quote |-> wq, hist |-> wh, hist2 |-> wh2,
                             remote |-> wr],
                            now, GROQ_AVAILABLE),
                  now)

\* the session after the sidebar of the pass, and after the rerun's sidebar when
\* the refresh button was clicked
AfterSidebar(S1, ev) ==
    IF ev.kind = "refresh" THEN Sidebar(ClearCaches(S1), NoEvent) ELSE S1

SteadyFor(S1) == Steady(S1.ticker, now)

\* One page pass for the interaction ev. With mode "any" every call that
\* reaches a collaborator may have any of its outcomes, and a behaviour has at
\* most MaxPasses passes; with mode "steady" the provider is Steady.
Pass(ev, mode) ==
    /\ mode = "any" => passes < MaxPasses
    /\ PassFrom(ev, mode, AfterSidebar(Sidebar(CurrentS, ev), ev),
                SteadyFor(AfterSidebar(Sidebar(CurrentS, ev), ev)))
    /\ passes' = IF mode = "any" THEN passes + 1 ELSE passes
    /\ UNCHANGED <<now, ticks, GROQ_AVAILABLE, probe>>

(* ---------------- the user's actions ---------------- *)
\* the first load of the page, or a rerun with no widget changed
Rerun(mode) == Pass(NoEvent, mode)

EnterTicker(mode, entries) ==
    /\ view.rendered
    /\ \E text \in entries :
          Pass([NoEvent EXCEPT !.kind = "ticker", !.text = text], mode)

EnterApiKey(mode) ==
    /\ view.rendered
    /\ \E key \in ApiKeys : Pass([NoEvent EXCEPT !.kind = "api_key", !.key = key], mode)

SelectPeriod(mode) ==
    /\ view.rendered
    /\ \E p \in PeriodChoices \ {period} :
          Pass([NoEvent EXCEPT !.kind = "period", !.period = p], mode)

ClickRefresh(mode) ==
    /\ view.rendered
    /\ Pass([NoEvent EXCEPT !.kind = "refresh"], mode)

\* the three analysis buttons are rendered only past both checks of tab 3
ClickAnalyze(mode) ==
    /\ view.rendered
    /\ view.gate = "ready"
    /\ \E b \in DOMAIN ANALYSIS :
          Pass([NoEvent EXCEPT !.kind = "analyze", !.button = b], mode)

SubmitChat(mode) ==
    /\ view.rendered
    /\ view.gate = "ready"
    /\ Len(chat_history) + 2 <= MaxChat
    /\ \E prompt \in Prompts :
          Pass([NoEvent EXCEPT !.kind = "chat", !.prompt = prompt], mode)

ClickClearChat(mode) ==
    /\ view.rendered
    /\ view.gate = "ready"
    /\ Pass([NoEvent EXCEPT !.kind = "clear"], mode)

Tick ==
    /\ ticks < MaxTicks
    /\ \E d \in TickSteps : now' = now + d
    /\ ticks' = ticks + 1
    /\ UNCHANGED <<passes, GROQ_AVAILABLE, session, caches, view, probe>>

\* Page passes whose collaborators are free: the first load and one interaction.
Next ==
    \/ Rerun("any")
    \/ EnterTicker("any", TickerEntries)
    \/ EnterApiKey("any")
    \/ SelectPeriod("any")
    \/ ClickRefresh("any")
    \/ ClickAnalyze("any")
    \/ SubmitChat("any")
    \/ ClickClearChat("any")

Spec == Init /\ [][Next]_vars

\* The caches over time, with the steady provider.
NextCache ==
    \/ Rerun("steady")
    \/ EnterTicker("steady", {<<109, 115, 102, 116>>})
    \/ SelectPeriod("steady")
    \/ ClickRefresh("steady")
    \/ Tick

\* no credential is configured and none is entered
InitNoKey == Init /\ GROQ_AVAILABLE /\ api_key = ""

SpecCache == InitNoKey /\ [][NextCache]_vars

\* The session over many interactions, with the steady provider.
NextSession ==
    \/ Rerun("steady")
    \/ EnterTicker("steady", TickerEntries)
    \/ EnterApiKey("steady")
    \/ ClickRefresh("steady")
    \/ ClickAnalyze("steady")
    \/ SubmitChat("steady")
    \/ ClickClearChat("steady")

SpecSession == Init /\ [][NextSession]_vars

(* ---------------- claims about the functions (SpecCalls) ---------------- *)
IsAscii(t) == \A i \in DOMAIN t : t[i] >= 0 /\ t[i] <= 127

IsPrintable(t) == \A i \in DOMAIN t : t[i] >= 32 /\ t[i] <= 126

AnalyzeCalled == probe.fn = "analyze_with_ai"

\* C1: with the Groq dependency available, a non-empty credential and a client
\* that was built, analyze_with_ai sends exactly one request, which carries the
\* sanitized context and the sanitized query, and returns the model's reply when
\* that request succeeds.
C1_OneRequestReturnsReply ==
    (AnalyzeCalled /\ probe.available /\ probe.api_key # "" /\ probe.remote.client = "ok")
        => /\ Len(probe.out.requests) = 1
           /\ probe.out.requests[1].user =
                 sanitize_for_groq(Str(Context(probe.ticker, probe.stock_data)))
                 \o USER_QUERY_HEAD \o sanitize_for_groq(Str(probe.query))
                 \o USER_QUERY_TAIL
           /\ (probe.remote.create = "replies" => probe.out.result = probe.remote.reply)

\* C2 as amended: a call with an empty credential sends no request; its result
\* is the configure-credential string when the Groq dependency is available and
\* the installation string when it is not.
C2_EmptyKeyNoRequest ==
    (AnalyzeCalled /\ probe.api_key = "")
        => /\ probe.out.requests = <<>>
           /\ (probe.available => probe.out.result = MSG_NO_KEY)
           /\ (~probe.available => probe.out.result = MSG_GROQ_MISSING)

C2_Witness ==
    /\ AnalyzeCalled
    /\ probe.api_key = ""
    /\ probe.available
    /\ probe.out.result = MSG_NO_KEY
    /\ probe.query = <<104, 105, 128512>>

\* C2 as stated: with an empty credential the result is the configure-credential
\* string whatever the dependency flag, and no request is sent.
C2_EmptyKeyAlwaysGuidance ==
    (AnalyzeCalled /\ probe.api_key = "")
        => (probe.out.result = MSG_NO_KEY /\ probe.out.requests = <<>>)

PrevCloseUnusable(provider) ==
    provider.info = "raises" \/ provider.previousClose \in {Absent, NoneV, Num(0)}

\* C3: a non-empty snapshot with any current price, zero included, and a
\* previous close that is zero, None, absent or whose lookup raises gives a quote
\* whose change and change_pct are both zero, and no exception.
C3_ZeroChange ==
    (/\ probe.fn = "get_current_price"
     /\ probe.provider.history = "data"
     /\ PrevCloseUnusable(probe.provider))
        => /\ ~probe.out.exc
           /\ probe.out.some
           /\ probe.out.change = Num(0)
           /\ probe.out.change_pct = Num(0)

\* C6 as amended: sanitize_for_groq is idempotent and its output holds only
\* 7-bit (ASCII) characters, control characters included.
C6_IdempotentAscii ==
    probe.fn = "sanitize_for_groq"
        => (probe.twice = probe.out /\ IsAscii(probe.out))

C6_Witness ==
    /\ probe.fn = "sanitize_for_groq"
    /\ probe.text = Str(<<128512, 10, 65>>)
    /\ probe.out = <<10, 65>>
    /\ probe.twice = <<10, 65>>

\* C6 as stated: sanitize_for_groq is idempotent and its output holds only
\* 7-bit printable characters.
C6_IdempotentPrintable ==
    probe.fn = "sanitize_for_groq"
        => (probe.twice = probe.out /\ IsPrintable(probe.out))

\* the provider's data has no value under the key of this profile field
FieldMissing(provider, name) ==
    provider.info = "none" \/ provider.d[ProviderKey(name)] = Absent

\* C8 as amended: a get_stock_info call that does not fail propagates no error
\* and returns "N/A" in every field whose key the provider's data lacks, except
\* company, which then is the ticker symbol.
C8_MissingFieldDefaults ==
    (probe.fn = "get_stock_info" /\ probe.provider.info # "raises")
        => /\ ~probe.out.exc
           /\ probe.out.some
           /\ \A name \in ProfileKeys :
                 FieldMissing(probe.provider, name)
                     => probe.out.f[name] =
                           (IF name = "company" THEN Str(probe.ticker) ELSE NA)

C8_Witness ==
    /\ probe.fn = "get_stock_info"
    /\ probe.provider.info = "dict"
    /\ FieldMissing(probe.provider, "company")
    /\ FieldMissing(probe.provider, "pe_ratio")
    /\ ~FieldMissing(probe.provider, "sector")
    /\ probe.out.f["company"] = Str(probe.ticker)
    /\ probe.out.f["pe_ratio"] = NA
    /\ probe.out.f["sector"] = SampleValue("sector")

\* C8 as stated: every field the provider's data lacks, company included, is
\* "N/A".
C8_MissingIsNA ==
    (probe.fn = "get_stock_info" /\ probe.provider.info # "raises")
        => /\ ~probe.out.exc
           /\ \A name \in ProfileKeys :
                 FieldMissing(probe.provider, name) => probe.out.f[name] = NA

(* ---------------- claims about the page (Spec, SpecCache, SpecSession) ---------------- *)
\* a step that is a page pass (a Tick moves the clock, a pass does not)
IsPass == now' = now /\ view'.rendered

\* the entry a first call of the pass finds: none after the refresh button
\* cleared the caches
Found(cache, key, none) ==
    IF view'.event = "refresh" THEN NoEntry(none) ELSE EntryOf(cache, key, none)

\* C4 (as stated): two get_current_price calls for the same ticker made less
\* than 60 seconds apart, with no cache clear in between, return the identical
\* record, and the second call performs no provider call.
C4_TwoCallsWithinTtl ==
    [][(/\ IsPass
        /\ view.rendered
        /\ view.quote_call.called
        /\ view'.quote_call.called
        /\ view'.event # "refresh"
        /\ view'.quote_call.key = view.quote_call.key
        /\ view'.time - view.time < 60)
       => /\ ~view'.quote_call.miss
          /\ view'.quote_call.val = view.quote_call.val]_vars

\* C4 (amended): a get_current_price call made less than 60 seconds after the
\* cached record of its ticker was fetched, with no cache clear in between,
\* returns that identical record and performs no provider call; a call made 60
\* seconds or more after the record was fetched, or with no record cached,
\* performs a fresh provider call.
C4_HitWithinTtlOfFetch ==
    [][(IsPass /\ view'.quote_call.called)
       => LET c == view'.quote_call
              e == Found(price_cache, c.key, NoQuote)
          IN  IF e.has /\ now - e.at < 60
              THEN ~c.miss /\ c.val = e.val /\ c.at = e.at
              ELSE c.miss /\ c.at = now]_vars

\* a quote served from the cache in the last second of its minute
C4_Witness ==
    /\ view.rendered
    /\ view.quote_call.called
    /\ view.quote_call.val.some
    /\ ~view.quote_call.miss
    /\ view.time - view.quote_call.at = 59

\* what one call of a cached operation must satisfy: c is the call as the pass
\* made it, before and after the operation's cache around the pass
WithinTtl(c, before, after, none, ttl) ==
    c.called =>
        LET e == Found(before, c.key, none)
        IN  /\ now - c.at < ttl
            /\ c.miss <=> ~(e.has /\ now - e.at < ttl)
            /\ ~c.miss => c.val = e.val /\ c.at = e.at
            /\ c.miss => /\ c.at = now
                         /\ c.key \in DOMAIN after
                         /\ after[c.key] = [has |-> TRUE, val |-> c.val, at |-> now]

\* C5: after any sequence of page passes, ticker changes, period changes and
\* refreshes, a value returned by a gateway operation was fetched less than that
\* operation's time-to-live ago (60 s quote, 300 s historical series, 3600 s
\* profile); a call whose entry has expired fetches afresh and the fetched
\* result alone is what the cache then holds for the key; each operation's hit
\* or miss depends on its own entry and its own time-to-live only.
C5_ValuesWithinTtl ==
    [][IsPass =>
          /\ WithinTtl(view'.quote_call, price_cache, price_cache', NoQuote, 60)
          /\ WithinTtl(view'.hist_call, hist_cache, hist_cache', NoFrame, 300)
          /\ WithinTtl(view'.info_call, info_cache, info_cache', NoProfile, 3600)]_vars

\* the quote had expired and was fetched afresh in a pass that still served the
\* historical series and the profile from their caches
C5_Witness ==
    /\ view.rendered
    /\ view.event = "rerun"
    /\ view.time >= 60
    /\ view.quote_call.called /\ view.quote_call.miss /\ view.quote_call.val.some
    /\ view.hist_call.called /\ ~view.hist_call.miss /\ view.hist_call.at < view.time
    /\ view.info_call.called /\ ~view.info_call.miss /\ view.info_call.at < view.time

\* C7 (as stated): for every combination of outcomes of the collaborators and
\* every user action, the page pass runs to the end of the page without an
\* unhandled exception.
C7_PassReachesFooter == view.rendered => (view.end = "footer" /\ view.crash = "none")

\* C9: create_price_chart is invoked only with a non-empty historical series;
\* when get_historical_data returns an empty series or None the renderer is not
\* invoked and the chart tab shows the error state.
C9_ChartOnlyWithRows ==
    view.rendered =>
        /\ view.chart_invoked =>
               /\ view.hist_call.called
               /\ view.hist_call.val.some
               /\ view.hist_call.val.rows # <<>>
        /\ (view.hist_call.called
            /\ (~view.hist_call.val.some \/ view.hist_call.val.rows = <<>>))
           => (~view.chart_invoked /\ view.tab1 = "error")

\* the provider returned a frame with no rows
C9_Witness ==
    /\ view.rendered
    /\ view.hist_call.called
    /\ view.hist_call.val.some
    /\ view.hist_call.val.rows = <<>>
    /\ view.tab1 = "error"

\* C10: every change to the chat transcript either appends, for one submitted
\* prompt, a user entry followed by one assistant entry (holding the result of
\* analyze_with_ai) and leaves the earlier entries unchanged as a prefix, or is
\* the clear-history action, which empties it.
C10_TranscriptAppendOnly ==
    [][\/ chat_history' = chat_history
       \/ /\ view'.event = "chat"
          /\ Len(chat_history') = Len(chat_history) + 2
          /\ SubSeq(chat_history', 1, Len(chat_history)) = chat_history
          /\ chat_history'[Len(chat_history) + 1].role = "user"
          /\ chat_history'[Len(chat_history) + 1].content \in Prompts
          /\ chat_history'[Len(chat_history) + 2].role = "assistant"
          /\ view'.ai.called
          /\ chat_history'[Len(chat_history) + 2].content = view'.ai.result
       \/ /\ view'.event = "clear"
          /\ chat_history' = <<>>]_vars

\* a second exchange was appended after the first
C10_Witness ==
    /\ view.rendered
    /\ view.event = "chat"
    /\ Len(chat_history) = 4
    /\ chat_history[3].role = "user"
    /\ chat_history[4].role = "assistant"

\* the keys of the gateway calls the last pass made
KeysOfCalls ==
    {c.key : c \in {x \in {view.info_call, view.quote_call} : x.called}}
    \cup {c.key[1] : c \in {x \in {view.hist_call, view.hist2_call} : x.called}}

\* C11 (as stated): after any sequence of ticker text entries (empty,
\* whitespace-only and lower-case entries included) the session's selected
\* ticker is a non-empty string equal to its own upper-case form, and it is the
\* ticker passed to every gateway call.
C11_TickerNonEmptyUpper ==
    /\ ticker # <<>>
    /\ ticker = upper(ticker)
    /\ view.rendered => \A k \in KeysOfCalls : k = ticker /\ k # <<>>

\* what one call c of a cached operation must satisfy where None is concerned:
\* before and after are the operation's cache around the pass
NoneIsCached(c, before, after, none, ttl) ==
    c.called =>
        LET e == EntryOf(before, c.key, none)
        IN  /\ (c.miss /\ ~c.val.some)
               => /\ c.key \in DOMAIN after
                  /\ after[c.key] = [has |-> TRUE, val |-> c.val, at |-> now]
            /\ (e.has /\ ~e.val.some /\ now - e.at < ttl /\ view'.event # "refresh")
               => (~c.miss /\ c.val = e.val /\ c.at = e.at)
            /\ (e.has /\ ~e.val.some /\ c.miss)
               => (now - e.at >= ttl \/ view'.event = "refresh")

\* C12: a gateway call that returns None (the fetch failed or found no data) is
\* stored in the cache like a successful result: every later call with the same
\* key inside the operation's time-to-live returns the same absent result
\* without a provider call, and a new attempt is made only after the entry has
\* expired or the refresh action has cleared the caches.
C12_NoneIsCached ==
    [][IsPass =>
          /\ NoneIsCached(view'.quote_call, price_cache, price_cache', NoQuote, 60)
          /\ NoneIsCached(view'.hist_call, hist_cache, hist_cache', NoFrame, 300)
          /\ NoneIsCached(view'.info_call, info_cache, info_cache', NoProfile, 3600)]_vars

\* a pass served None from all three caches some time after the failed fetches
C12_Witness ==
    /\ view.rendered
    /\ view.quote_call.called /\ ~view.quote_call.miss /\ ~view.quote_call.val.some
    /\ view.quote_call.at < view.time
    /\ view.hist_call.called /\ ~view.hist_call.miss /\ ~view.hist_call.val.some
    /\ view.hist_call.at < view.time
    /\ view.info_call.called /\ ~view.info_call.miss /\ ~view.info_call.val.some
    /\ view.info_call.at < view.time

====
